---- MODULE Spec2Model ----
(***************************************************************************)
(* DeleteUserDataActivity: the backup-then-delete cascade over a user's    *)
(* messages, message-status versions and profile versions.                 *)
(*                                                                         *)
(* Every asynchronous collaborator call (findMessages, executeNext,        *)
(* createBlockBlobFromText, the deletes) is modelled by the moment it is   *)
(* issued and by one action for its completion, so that the interleavings  *)
(* of the fp-ts 1.x parallel applicative (taskEither, Promise.all) and of  *)
(* the sequential one (taskEitherSeq) are those of the event loop.         *)
(***************************************************************************)
EXTENDS Integers, Sequences, FiniteSets, TLC

(* ---------------------------- bounds ----------------------------------- *)
MaxMessages == 2
MaxVersions == 3
MaxPageLen == 2

(* ---------------------------- data ------------------------------------- *)
aFiscalCode == "AAAAAA00A00A000A"
aRequestId == "REQ1"

\* the activity inputs tried: a well-formed one and two that do not decode
Inputs ==
  { [fiscalCode |-> aFiscalCode, userDataDeleteRequestId |-> aRequestId],
    [fiscalCode |-> "", userDataDeleteRequestId |-> aRequestId],
    [fiscalCode |-> aFiscalCode, userDataDeleteRequestId |-> ""] }

ActivityInput_decode(i) ==
  i.fiscalCode = aFiscalCode /\ i.userDataDeleteRequestId = aRequestId

MessageId(i) == "M" \o ToString(i)

RetrievedMessage(i) ==
  [type |-> "message", key |-> aFiscalCode, id |-> MessageId(i), version |-> 0]

RetrievedMessageStatus(i, v) ==
  [type |-> "message-status", key |-> MessageId(i),
   id |-> MessageId(i) \o "-" \o ToString(v), version |-> v]

RetrievedProfile(v) ==
  [type |-> "profile", key |-> aFiscalCode,
   id |-> aFiscalCode \o "-" \o ToString(v), version |-> v]

AllRecords ==
  {RetrievedMessage(i) : i \in 1..MaxMessages}
    \cup {RetrievedMessageStatus(i, v) : i \in 1..MaxMessages, v \in 0..(MaxVersions - 1)}
    \cup {RetrievedProfile(v) : v \in 0..(MaxVersions - 1)}

\* a live store holding nm messages, ns[i] status versions of message i and
\* np profile versions
Store(nm, ns, np) ==
  {RetrievedMessage(i) : i \in 1..nm}
    \cup UNION {{RetrievedMessageStatus(i, v) : v \in 0..(ns[i] - 1)} : i \in 1..nm}
    \cup {RetrievedProfile(v) : v \in 0..(np - 1)}

(* ---------------------------- failures --------------------------------- *)
NoFailure == [kind |-> "NONE", query |-> ""]
InvalidInputFailure == [kind |-> "INVALID_INPUT_FAILURE", query |-> ""]
BlobCreationFailure == [kind |-> "BLOB_FAILURE", query |-> ""]
QueryFailure(queryName) == [kind |-> "QUERY_FAILURE", query |-> queryName]

\* fromQueryEither: a rejection and a left are both a QueryFailure that
\* carries the query name
fromQueryEither(ok, queryName) ==
  IF ok THEN NoFailure ELSE QueryFailure(queryName)

\* toQueryFailure: sets kind and reason only, the query field stays undefined
toQueryFailure == QueryFailure("undefined")

ActivityResultSuccess == [kind |-> "SUCCESS", query |-> ""]

(* ---------------------------- archive ---------------------------------- *)
\* faulty variant: the folder is the request id alone
Folder_NoTimestamp(requestId, now) == requestId

Folder(requestId, now) == requestId \o "-" \o ToString(now)

\* an optional string: unset, or set to s
Undefined == <<>>
Defined(s) == <<s>>

\* `${v}`: an unset value is rendered as the text undefined
TemplateString(v) == IF v = Undefined THEN "undefined" ELSE v[1]

\* v ? a : b
Truthy(v) == v # Undefined /\ v[1] # ""

\* `${folder}${folder ? "/" : ""}${blobName}`
BlobPath(folder, blobName) ==
  TemplateString(folder) \o (IF Truthy(folder) THEN "/" ELSE "") \o blobName

JSON_stringify(r) ==
  "{" \o r.type \o "," \o r.key \o "," \o r.id \o "," \o ToString(r.version) \o "}"

\* faulty variant: the version is left out of the name
ProfileBlobName_NoVersion(item) == "profile.json"

ProfileBlobName(item) == "profile--" \o ToString(item.version) \o ".json"

\* faulty variant: the id is left out of the name
MessageStatusBlobName_NoId(item) ==
  "message-status--" \o ToString(item.version) \o ".json"

MessageStatusBlobName(item) ==
  "message-status--" \o item.id \o "--" \o ToString(item.version) \o ".json"

MessageBlobName(message) == "message--" \o message.id \o ".json"

BlobName(r) ==
  CASE r.type = "profile" -> ProfileBlobName(r)
    [] r.type = "message-status" -> MessageStatusBlobName(r)
    [] OTHER -> MessageBlobName(r)

\* createBlockBlobFromText: one atomic put that creates or overwrites
createBlockBlobFromText(store, path, text) ==
  {b \in store : b.path # path} \cup {[path |-> path, text |-> text]}


(* ---------------------------- cursors ---------------------------------- *)
RECURSIVE SortByVersion(_)
SortByVersion(S) ==
  IF S = {} THEN <<>>
  ELSE LET r == CHOOSE x \in S : \A y \in S : x.version <= y.version
       IN <<r>> \o SortByVersion(S \ {r})

\* position of a message in the store's enumeration order
MessageIndex(r) == CHOOSE i \in 1..MaxMessages : MessageId(i) = r.id

RECURSIVE SortById(_)
SortById(S) ==
  IF S = {} THEN <<>>
  ELSE LET r == CHOOSE x \in S : \A y \in S : MessageIndex(x) <= MessageIndex(y)
       IN <<r>> \o SortById(S \ {r})

Take(s, n) == SubSeq(s, 1, IF n < Len(s) THEN n ELSE Len(s))
Drop(s, n) == SubSeq(s, (IF n < Len(s) THEN n ELSE Len(s)) + 1, Len(s))

\* the pages a query iterator delivers for a result set, pageSize items each
RECURSIVE Paginate(_, _)
Paginate(s, size) ==
  IF s = <<>> THEN <<>> ELSE <<Take(s, size)>> \o Paginate(Drop(s, size), size)

\* messageModel.findMessages(fiscalCode), drained by iteratorToArray
findMessages(store, fiscalCode) ==
  SortById({r \in store : r.type = "message" /\ r.key = fiscalCode})

\* messageStatusModel.findAllVersionsByModelId(message.id)
findAllStatusVersionsByModelId(store, messageId) ==
  SortByVersion({r \in store : r.type = "message-status" /\ r.key = messageId})

\* profileModel.findAllVersionsByModelId(fiscalCode)
findAllProfileVersionsByModelId(store, fiscalCode) ==
  SortByVersion({r \in store : r.type = "profile" /\ r.key = fiscalCode})

(* ---------------------- single-item backup-then-delete ------------------ *)
\* a task of sequenceT(taskEitherSeq)(saveDataToBlob, fromQueryEither(delete)):
\* run() issues the save at once
StartItem(rec) == [rec |-> rec, st |-> "archiving", failure |-> NoFailure]

\* faulty variant: the delete is issued whatever the save
\* answered (the parallel applicative in place of the sequential one)
AfterSave_Unchecked(item, ok) == [item EXCEPT !.st = "deleting"]

\* saveDataToBlob calls back: on success the sequential applicative issues
\* the delete, on error the step is left(BLOB_FAILURE) and nothing follows
AfterSave(item, ok) ==
  IF ok THEN [item EXCEPT !.st = "deleting"]
  ELSE [item EXCEPT !.st = "failed", !.failure = BlobCreationFailure]

\* faulty variant: the error of the delete is swallowed
AfterDelete_Swallowed(item, ok, queryName) == [item EXCEPT !.st = "done"]

\* the delete promise settles: right(item), or the QueryFailure of
\* fromQueryEither
AfterDelete(item, ok, queryName) ==
  IF ok THEN [item EXCEPT !.st = "done"]
  ELSE [item EXCEPT !.st = "failed", !.failure = fromQueryEither(FALSE, queryName)]

Resolved(t) == t.st \in {"done", "failed"}

(* ------------- array.sequence(taskEither): the parallel join ------------ *)
\* Task.ap is Promise.all: the joined task settles when every task has
\* settled; Either.ap keeps the left of the accumulated (earlier) side
\* faulty variant: the join never settles once a task has failed
SequenceResult_Stuck(tasks) ==
  IF \E k \in DOMAIN tasks : tasks[k].st # "done" THEN "pending" ELSE "ok"

SequenceResult(tasks) ==
  IF \E k \in DOMAIN tasks : ~Resolved(tasks[k]) THEN "pending"
  ELSE IF \E k \in DOMAIN tasks : tasks[k].st = "failed" THEN "failed"
  ELSE "ok"

\* faulty variant: the failure of the last failed task is kept
LeftmostFailure_Last(tasks) ==
  LET k == CHOOSE j \in DOMAIN tasks :
             /\ tasks[j].st = "failed"
             /\ \A h \in DOMAIN tasks : tasks[h].st = "failed" => j >= h
  IN tasks[k].failure

LeftmostFailure(tasks) ==
  LET k == CHOOSE j \in DOMAIN tasks :
             /\ tasks[j].st = "failed"
             /\ \A h \in DOMAIN tasks : tasks[h].st = "failed" => j <= h
  IN tasks[k].failure

(* ---------------------------- paged processor --------------------------- *)
IdleCascade ==
  [cursor |-> <<>>, phase |-> "idle", pages |-> <<>>, out |-> <<>>,
   failure |-> NoFailure, fetchCalls |-> 0]

\* executeRecursiveOperations(iterator): run() issues iterator.executeNext
NewCascade(recs, size) ==
  [cursor |-> Paginate(recs, size), phase |-> "fetching", pages |-> <<>>,
   out |-> <<>>, failure |-> NoFailure, fetchCalls |-> 1]

Items(page) == [k \in DOMAIN page |-> StartItem(page[k])]
RecordsOf(items) == [k \in DOMAIN items |-> items[k].rec]
RecordSet(s) == {s[k] : k \in DOMAIN s}

\* faulty variant: the recursion restarts the query, so the
\* page just processed is delivered again
ExecuteNextReturn_Restart(c, ok) ==
  IF ~ok THEN [c EXCEPT !.phase = "failed", !.failure = toQueryFailure]
  ELSE IF c.cursor = <<>> THEN [c EXCEPT !.phase = "ok"]
  ELSE [c EXCEPT !.cursor = IF Len(c.pages) >= 1 THEN Tail(@) ELSE @,
                 !.phase = "page",
                 !.pages = Append(@, Items(Head(c.cursor)))]

\* faulty variant: an error of executeNext is taken for the end of the data
ExecuteNextReturn_ErrorAsEnd(c, ok) ==
  IF ~ok \/ c.cursor = <<>> THEN [c EXCEPT !.phase = "ok"]
  ELSE IF Head(c.cursor) = <<>>
    THEN [c EXCEPT !.cursor = Tail(@), !.pages = Append(@, <<>>),
                   !.fetchCalls = @ + 1]
  ELSE [c EXCEPT !.cursor = Tail(@), !.phase = "page",
                 !.pages = Append(@, Items(Head(c.cursor)))]

\* faulty variant: a result set with no page at all is reported as a user
\* that does not exist
ExecuteNextReturn_NotFound(c, ok) ==
  IF ~ok THEN [c EXCEPT !.phase = "failed", !.failure = toQueryFailure]
  ELSE IF c.cursor = <<>>
    THEN IF c.pages = <<>>
           THEN [c EXCEPT !.phase = "failed",
                          !.failure = [kind |-> "USER_NOT_FOUND_FAILURE", query |-> ""]]
           ELSE [c EXCEPT !.phase = "ok"]
  ELSE IF Head(c.cursor) = <<>>
    THEN [c EXCEPT !.cursor = Tail(@), !.pages = Append(@, <<>>),
                   !.fetchCalls = @ + 1]
  ELSE [c EXCEPT !.cursor = Tail(@), !.phase = "page",
                 !.pages = Append(@, Items(Head(c.cursor)))]

\* faulty variant: a page with no item is taken for the end of the data
ExecuteNextReturn_EmptyAsEnd(c, ok) ==
  IF ~ok THEN [c EXCEPT !.phase = "failed", !.failure = toQueryFailure]
  ELSE IF c.cursor = <<>> THEN [c EXCEPT !.phase = "ok"]
  ELSE IF Head(c.cursor) = <<>>
    THEN [c EXCEPT !.cursor = Tail(@), !.pages = Append(@, <<>>), !.phase = "ok"]
  ELSE [c EXCEPT !.cursor = Tail(@), !.phase = "page",
                 !.pages = Append(@, Items(Head(c.cursor)))]

\* iterator.executeNext settles: an error is mapped by toQueryFailure, none
\* ends the recursion with taskEither.of([]), some(items) starts one
\* backup-then-delete task per item; a page with no item joins at once and
\* the recursive step issues executeNext again
ExecuteNextReturn(c, ok) ==
  IF ~ok THEN [c EXCEPT !.phase = "failed", !.failure = toQueryFailure]
  ELSE IF c.cursor = <<>> THEN [c EXCEPT !.phase = "ok"]
  ELSE IF Head(c.cursor) = <<>>
    THEN [c EXCEPT !.cursor = Tail(@), !.pages = Append(@, <<>>),
                   !.fetchCalls = @ + 1]
  ELSE [c EXCEPT !.cursor = Tail(@), !.phase = "page",
                 !.pages = Append(@, Items(Head(c.cursor)))]

CurrentPage(c) == c.pages[Len(c.pages)]

SetItem(c, k, item) == [c EXCEPT !.pages[Len(c.pages)][k] = item]

\* faulty variant: a failed page does not stop the recursion
PageSettle_Continue(c, keep) ==
  IF SequenceResult(CurrentPage(c)) = "pending" THEN c
  ELSE [c EXCEPT !.phase = "fetching", !.fetchCalls = @ + 1,
                 !.out = IF keep THEN @ \o RecordsOf(CurrentPage(c)) ELSE @]

\* faulty variant: the recursive step does not wait for the
\* siblings still in flight
PageSettle_Eager(c, keep) ==
  IF \E k \in DOMAIN CurrentPage(c) : CurrentPage(c)[k].st = "failed"
    THEN [c EXCEPT !.phase = "failed", !.failure = LeftmostFailure(CurrentPage(c))]
  ELSE [c EXCEPT !.phase = "fetching", !.fetchCalls = @ + 1,
                 !.out = IF keep THEN @ \o RecordsOf(CurrentPage(c)) ELSE @]

\* faulty variant: the results of the later pages are put first
PageSettle_Prepend(c, keep) ==
  LET res == SequenceResult(CurrentPage(c)) IN
  IF res = "pending" THEN c
  ELSE IF res = "failed"
    THEN [c EXCEPT !.phase = "failed", !.failure = LeftmostFailure(CurrentPage(c))]
  ELSE [c EXCEPT !.phase = "fetching", !.fetchCalls = @ + 1,
                 !.out = IF keep THEN RecordsOf(CurrentPage(c)) \o @ ELSE @]

\* array.sequence(taskEither)(items.map(executeOnSingleVersionItem)).chain(...)
\* once an item task has settled: nothing while a sibling is pending, the
\* leftmost failure when the page failed, the next executeNext when every
\* item succeeded.  keep: the status cascade concatenates the page results,
\* the profile cascade drops them
PageSettle(c, keep) ==
  LET res == SequenceResult(CurrentPage(c)) IN
  IF res = "pending" THEN c
  ELSE IF res = "failed"
    THEN [c EXCEPT !.phase = "failed", !.failure = LeftmostFailure(CurrentPage(c))]
  ELSE [c EXCEPT !.phase = "fetching", !.fetchCalls = @ + 1,
                 !.out = IF keep THEN @ \o RecordsOf(CurrentPage(c)) ELSE @]


(* ---------------------------- logging ----------------------------------- *)
FailureKinds ==
  {"INVALID_INPUT_FAILURE", "QUERY_FAILURE", "BLOB_FAILURE",
   "USER_NOT_FOUND_FAILURE", "DELETE_FAILURE"}

\* assertNever(_: never): throw new Error("should not have executed this")
assertNever(x) == [errors |-> 0, thrown |-> TRUE]

\* one context.log.error(...); break
LogError == [errors |-> 1, thrown |-> FALSE]

\* faulty variant: the DELETE_FAILURE case is missing
logFailure_MissingCase(failure) ==
  CASE failure.kind = "INVALID_INPUT_FAILURE" -> LogError
    [] failure.kind = "QUERY_FAILURE" -> LogError
    [] failure.kind = "BLOB_FAILURE" -> LogError
    [] failure.kind = "USER_NOT_FOUND_FAILURE" -> LogError
    [] OTHER -> assertNever(failure)

\* logFailure: switch (failure.kind), one error log per case, assertNever
\* by default
logFailure(failure) ==
  CASE failure.kind = "INVALID_INPUT_FAILURE" -> LogError
    [] failure.kind = "QUERY_FAILURE" -> LogError
    [] failure.kind = "BLOB_FAILURE" -> LogError
    [] failure.kind = "USER_NOT_FOUND_FAILURE" -> LogError
    [] failure.kind = "DELETE_FAILURE" -> LogError
    [] OTHER -> assertNever(failure)

(* ---------------------------- the trigger ------------------------------- *)
MaxBatch == 3

UserDataProcessingChoice == {"DOWNLOAD", "DELETE"}
UserDataProcessingStatus == {"PENDING", "WIP", "ABORTED", "FAILED", "CLOSED"}

\* the user-data-processing documents, by the two fields the trigger reads
UserDataProcessing == [choice : UserDataProcessingChoice, status : UserDataProcessingStatus]

ProcessableUserDataDownload(doc) ==
  doc.choice = "DOWNLOAD" /\ doc.status = "PENDING"

\* faulty variant: the status is not looked at
ProcessableUserDataDelete_AnyStatus(doc) == doc.choice = "DELETE"

ProcessableUserDataDelete(doc) ==
  doc.choice = "DELETE" /\ doc.status = "PENDING"

ProcessableUserDataDeleteAbort(doc) ==
  doc.choice = "DELETE" /\ doc.status = "ABORTED"

\* jest.mock("../../utils/featureFlags"): both flags are on
ENABLE_USER_DATA_DELETE == TRUE
ENABLE_USER_DATA_DOWNLOAD == TRUE

RECURSIVE SeqsUpTo(_, _)
SeqsUpTo(S, n) ==
  IF n = 0 THEN {<<>>}
  ELSE LET shorter == SeqsUpTo(S, n - 1)
       IN shorter \cup {Append(b, d) : b \in {x \in shorter : Len(x) = n - 1}, d \in S}

\* the trigger before it is called on `documents`; isArray is false for an
\* input that is no array of documents
NewTrigger(isArray, documents) ==
  [state |-> "idle", isArray |-> isArray, documents |-> documents,
   startNew |-> [i \in DOMAIN documents |-> 0],
   raiseEvent |-> [i \in DOMAIN documents |-> 0],
   insertEntity |-> [i \in DOMAIN documents |-> 0],
   deleteEntity |-> [i \in DOMAIN documents |-> 0]]

IdleTrigger == NewTrigger(TRUE, <<>>)

\* triggerHandler(insertEntity, deleteEntity)(context, input): every document
\* is classified and dispatched, the calls are awaited together; an input
\* that does not decode makes the handler throw before any call
triggerHandlerResult(t) ==
  IF ~t.isArray THEN [t EXCEPT !.state = "thrown"]
  ELSE [t EXCEPT
          !.state = "returned",
          !.startNew = [i \in DOMAIN t.documents |->
             IF \/ ProcessableUserDataDownload(t.documents[i]) /\ ENABLE_USER_DATA_DOWNLOAD
                \/ ProcessableUserDataDelete(t.documents[i]) /\ ENABLE_USER_DATA_DELETE
               THEN 1 ELSE 0],
          !.raiseEvent = [i \in DOMAIN t.documents |->
             IF /\ ~ProcessableUserDataDownload(t.documents[i])
                /\ ~ProcessableUserDataDelete(t.documents[i])
                /\ ProcessableUserDataDeleteAbort(t.documents[i])
               THEN 1 ELSE 0],
          !.insertEntity = [i \in DOMAIN t.documents |->
             IF t.documents[i].status = "FAILED" THEN 1 ELSE 0],
          !.deleteEntity = [i \in DOMAIN t.documents |->
             IF t.documents[i].status = "CLOSED" THEN 1 ELSE 0]]

(* ---------------------------- state ------------------------------------- *)
VARIABLES
  pc,            \* position of the invocation
  input,         \* the activity input
  clock,         \* Date.now()
  pageSize,      \* items per page delivered by the store's iterators
  folder,        \* userDataBackup.folder of the invocation
  live,          \* records in the live store
  archive,       \* objects in the backup container
  messages,      \* the array findMessages resolved to
  mtask,         \* per message: the task of its sequenceT(taskEitherSeq)
  status,        \* per message: its message-status cascade
  profile,       \* the profile cascade
  result,        \* the ActivityResult returned
  errorLogs,     \* calls of context.log.error
  archiveCalls,  \* per record: createBlockBlobFromText calls issued
  deleteCalls,   \* per record: delete calls issued against the live store
  otherCalls,    \* calls on notificationModel, notificationStatusModel and
                 \* messageContentBlobService
  live0,         \* the live store when the invocation started
  faults,        \* the collaborator calls that settled with an error
  firstFault,    \* the first of them in time
  trigger        \* the user-data-processing trigger: its input and its calls

vars ==
  <<pc, input, clock, pageSize, folder, live, archive, messages, mtask,
    status, profile, result, errorLogs, archiveCalls, deleteCalls,
    otherCalls, live0, faults, firstFault, trigger>>

NoResult == [kind |-> "NONE", query |-> ""]

NoFault == <<>>

Bump(calls, S) == [r \in DOMAIN calls |-> IF r \in S THEN calls[r] + 1 ELSE calls[r]]

Init ==
  /\ pc = "Idle"
  /\ input \in Inputs
  /\ clock = 0
  /\ pageSize \in 1..MaxPageLen
  /\ folder = Undefined
  /\ \E nm \in 0..MaxMessages, np \in 0..MaxVersions :
       \E ns \in [1..nm -> 0..MaxVersions] : live = Store(nm, ns, np)
  /\ live0 = live
  /\ archive = {}
  /\ messages = <<>>
  /\ mtask = <<>>
  /\ status = <<>>
  /\ profile = IdleCascade
  /\ result = NoResult
  /\ errorLogs = 0
  /\ archiveCalls = [r \in AllRecords |-> 0]
  /\ deleteCalls = [r \in AllRecords |-> 0]
  /\ otherCalls = 0
  /\ faults = {}
  /\ firstFault = NoFault
  /\ trigger = IdleTrigger

\* the environment's side of a call: an error is remembered
Settle(ok, op, target) ==
  /\ faults' = IF ok THEN faults ELSE faults \cup {<<op, target>>}
  /\ firstFault' = IF ok \/ firstFault # NoFault THEN firstFault
                   ELSE <<op, target>>

(* ---------------------------- the handler ------------------------------- *)
\* .bimap(failure => { logFailure(context)(failure); return failure }, ...):
\* the invocation resolves to the failure, logged once
\* faulty variant: the failure is returned without being logged
ReturnFailure_Silent(failure) ==
  /\ pc' = "Failed"
  /\ result' = failure
  /\ UNCHANGED errorLogs

ReturnFailure(failure) ==
  LET log == logFailure(failure) IN
  /\ pc' = IF log.thrown THEN "Fault" ELSE "Failed"
  /\ result' = IF log.thrown THEN NoResult ELSE failure
  /\ errorLogs' = errorLogs + log.errors

ReturnSuccess ==
  /\ pc' = "Done"
  /\ result' = ActivityResultSuccess
  /\ UNCHANGED errorLogs

\* faulty variant: the decoded input is not checked
Handler_NoDecode ==
  /\ pc = "Idle"
  /\ pc' = "QueryingMessages"
  /\ folder' = Defined(Folder(input.userDataDeleteRequestId, clock))
  /\ UNCHANGED <<result, errorLogs>>
  /\ UNCHANGED <<trigger, input, clock, pageSize, live, archive, messages, mtask,
                 status, profile, archiveCalls, deleteCalls, otherCalls, live0,
                 faults, firstFault>>

\* createDeleteUserDataActivityHandler(...)(context, input): decode, then
\* backupAndDeleteAllUserData whose run() issues findMessages
Handler ==
  /\ pc = "Idle"
  /\ IF ActivityInput_decode(input)
       THEN /\ pc' = "QueryingMessages"
            /\ folder' = Defined(Folder(input.userDataDeleteRequestId, clock))
            /\ UNCHANGED <<result, errorLogs>>
       ELSE /\ ReturnFailure(InvalidInputFailure)
            /\ UNCHANGED folder
  /\ UNCHANGED <<trigger, input, clock, pageSize, live, archive, messages, mtask,
                 status, profile, archiveCalls, deleteCalls, otherCalls, live0,
                 faults, firstFault>>

\* faulty variant: the profile cascade is chained whatever the
\* messages answered
JoinMessages_Always(tasks, store) ==
  IF SequenceResult(tasks) = "pending"
    THEN /\ pc' = "ProcessingMessages"
         /\ UNCHANGED <<profile, result, errorLogs>>
  ELSE /\ pc' = "ProcessingProfile"
       /\ profile' = NewCascade(findAllProfileVersionsByModelId(store, input.fiscalCode), pageSize)
       /\ UNCHANGED <<result, errorLogs>>

\* faulty variant: the first failed message settles the join
\* while other messages are still in flight
JoinMessages_FailFast(tasks, store) ==
  IF \E k \in DOMAIN tasks : tasks[k].st = "failed"
    THEN /\ ReturnFailure(LeftmostFailure(tasks))
         /\ UNCHANGED profile
  ELSE IF SequenceResult(tasks) = "pending"
    THEN /\ pc' = "ProcessingMessages"
         /\ UNCHANGED <<profile, result, errorLogs>>
  ELSE /\ pc' = "ProcessingProfile"
       /\ profile' = NewCascade(findAllProfileVersionsByModelId(store, input.fiscalCode), pageSize)
       /\ UNCHANGED <<result, errorLogs>>

\* the join of array.sequence(taskEither)(messages.map(...)) followed by
\* .chain(_ => backupAndDeleteProfile(...)): nothing while a message is
\* pending, the leftmost failure when one failed, else the profile cascade,
\* whose iterator is created and first fetched now
JoinMessages(tasks, store) ==
  LET res == SequenceResult(tasks) IN
  IF res = "pending"
    THEN /\ pc' = "ProcessingMessages"
         /\ UNCHANGED <<profile, result, errorLogs>>
  ELSE IF res = "failed"
    THEN /\ ReturnFailure(LeftmostFailure(tasks))
         /\ UNCHANGED profile
  ELSE /\ pc' = "ProcessingProfile"
       /\ profile' = NewCascade(findAllProfileVersionsByModelId(store, input.fiscalCode), pageSize)
       /\ UNCHANGED <<result, errorLogs>>

\* faulty variant: a failed enumeration is taken for an empty one
FindMessagesReturn_Swallowed(ok) ==
  /\ pc = "QueryingMessages"
  /\ LET msgs == IF ok THEN findMessages(live, input.fiscalCode) ELSE <<>>
         tasks == [i \in DOMAIN msgs |->
                     [rec |-> msgs[i], st |-> "status", failure |-> NoFailure]]
     IN /\ messages' = msgs
        /\ mtask' = tasks
        /\ status' = [i \in DOMAIN msgs |->
                       NewCascade(findAllStatusVersionsByModelId(live, msgs[i].id), pageSize)]
        /\ JoinMessages(tasks, live)
  /\ UNCHANGED <<trigger, input, clock, pageSize, folder, live, archive, archiveCalls,
                 deleteCalls, otherCalls, live0>>
  /\ Settle(ok, "findMessages", input.fiscalCode)

\* findMessages settles.  On success every message task is started in the
\* same turn: the content placeholder resolves at once and the status cascade
\* of each message issues its first executeNext
FindMessagesReturn(ok) ==
  /\ pc = "QueryingMessages"
  /\ IF ~ok
       THEN /\ ReturnFailure(fromQueryEither(FALSE, "findMessages"))
            /\ UNCHANGED <<messages, mtask, status, profile>>
       ELSE LET msgs == findMessages(live, input.fiscalCode)
                tasks == [i \in DOMAIN msgs |->
                            [rec |-> msgs[i], st |-> "status", failure |-> NoFailure]]
            IN /\ messages' = msgs
               /\ mtask' = tasks
               /\ status' = [i \in DOMAIN msgs |->
                              NewCascade(findAllStatusVersionsByModelId(live, msgs[i].id), pageSize)]
               /\ JoinMessages(tasks, live)
  /\ UNCHANGED <<trigger, input, clock, pageSize, folder, live, archive, archiveCalls,
                 deleteCalls, otherCalls, live0>>
  /\ Settle(ok, "findMessages", input.fiscalCode)

\* faulty variant: the message step runs after a failed
\* status cascade too
MessageAfterStatus_Always(task, c) ==
  IF c.phase \in {"failed", "ok"} THEN [task EXCEPT !.st = "archiving"] ELSE task

\* the message task of message i after its status cascade moved to c:
\* a failed cascade fails the task, a finished one lets the sequential
\* applicative issue the save of backupAndDeleteMessage
MessageAfterStatus(task, c) ==
  IF c.phase = "failed" THEN [task EXCEPT !.st = "failed", !.failure = c.failure]
  ELSE IF c.phase = "ok" THEN [task EXCEPT !.st = "archiving"]
  ELSE task

\* records whose save is issued by the step from cascade c to cascade d
NewlySaved(c, d) ==
  IF Len(d.pages) > Len(c.pages) THEN RecordSet(RecordsOf(CurrentPage(d))) ELSE {}

StatusStep(i, d, store) ==
  LET task == MessageAfterStatus(mtask[i], d)
      tasks == [mtask EXCEPT ![i] = task]
  IN /\ status' = [status EXCEPT ![i] = d]
     /\ mtask' = tasks
     /\ archiveCalls' = Bump(archiveCalls,
                             NewlySaved(status[i], d)
                               \cup (IF task.st = "archiving" THEN {task.rec} ELSE {}))
     /\ JoinMessages(tasks, store)

\* backupAndDeleteMessageStatus.executeRecursiveOperations: executeNext settles
StatusExecuteNextReturn(i, ok) ==
  /\ pc = "ProcessingMessages"
  /\ i \in DOMAIN status
  /\ status[i].phase = "fetching"
  /\ StatusStep(i, ExecuteNextReturn(status[i], ok), live)
  /\ UNCHANGED <<trigger, input, clock, pageSize, folder, live, archive, messages,
                 deleteCalls, otherCalls, live0>>
  /\ Settle(ok, "executeNext", MessageId(i))

\* backupAndDeleteMessageStatus.executeOnSingleVersionItem: the save settles
StatusSaveReturn(i, k, ok) ==
  /\ pc = "ProcessingMessages"
  /\ i \in DOMAIN status
  /\ status[i].phase = "page"
  /\ k \in DOMAIN CurrentPage(status[i])
  /\ CurrentPage(status[i])[k].st = "archiving"
  /\ LET item == CurrentPage(status[i])[k]
         next == AfterSave(item, ok)
     IN /\ archive' = IF ok
                        THEN createBlockBlobFromText(archive,
                               BlobPath(folder, MessageStatusBlobName(item.rec)),
                               JSON_stringify(item.rec))
                        ELSE archive
        /\ deleteCalls' = Bump(deleteCalls, IF next.st = "deleting" THEN {item.rec} ELSE {})
        /\ StatusStep(i, PageSettle(SetItem(status[i], k, next), TRUE), live)
  /\ UNCHANGED <<trigger, input, clock, pageSize, folder, live, messages, otherCalls, live0>>
  /\ Settle(ok, "save", CurrentPage(status[i])[k].rec)

\* deleteMessageStatusVersion settles
StatusDeleteReturn(i, k, ok) ==
  /\ pc = "ProcessingMessages"
  /\ i \in DOMAIN status
  /\ status[i].phase = "page"
  /\ k \in DOMAIN CurrentPage(status[i])
  /\ CurrentPage(status[i])[k].st = "deleting"
  /\ LET item == CurrentPage(status[i])[k]
         next == AfterDelete(item, ok, "deleteMessageStatusVersion")
         store == IF ok THEN live \ {item.rec} ELSE live
     IN /\ live' = store
        /\ StatusStep(i, PageSettle(SetItem(status[i], k, next), TRUE), store)
  /\ UNCHANGED <<trigger, input, clock, pageSize, folder, archive, messages,
                 deleteCalls, otherCalls, live0>>
  /\ Settle(ok, "delete", CurrentPage(status[i])[k].rec)

\* backupAndDeleteMessage: the save of the message settles
MessageSaveReturn(i, ok) ==
  /\ pc = "ProcessingMessages"
  /\ i \in DOMAIN mtask
  /\ mtask[i].st = "archiving"
  /\ LET next == AfterSave(mtask[i], ok)
         tasks == [mtask EXCEPT ![i] = next]
     IN /\ archive' = IF ok
                        THEN createBlockBlobFromText(archive,
                               BlobPath(folder, MessageBlobName(mtask[i].rec)),
                               JSON_stringify(mtask[i].rec))
                        ELSE archive
        /\ deleteCalls' = Bump(deleteCalls, IF next.st = "deleting" THEN {next.rec} ELSE {})
        /\ mtask' = tasks
        /\ JoinMessages(tasks, live)
  /\ UNCHANGED <<trigger, input, clock, pageSize, folder, live, messages, status,
                 archiveCalls, otherCalls, live0>>
  /\ Settle(ok, "save", mtask[i].rec)

\* deleteMessage settles
MessageDeleteReturn(i, ok) ==
  /\ pc = "ProcessingMessages"
  /\ i \in DOMAIN mtask
  /\ mtask[i].st = "deleting"
  /\ LET next == AfterDelete(mtask[i], ok, "deleteMessage")
         tasks == [mtask EXCEPT ![i] = next]
         store == IF ok THEN live \ {next.rec} ELSE live
     IN /\ live' = store
        /\ mtask' = tasks
        /\ JoinMessages(tasks, store)
  /\ UNCHANGED <<trigger, input, clock, pageSize, folder, archive, messages, status,
                 archiveCalls, deleteCalls, otherCalls, live0>>
  /\ Settle(ok, "delete", mtask[i].rec)

\* the end of the pipeline: the profile cascade settled
ProfileStep(d) ==
  /\ profile' = d
  /\ archiveCalls' = Bump(archiveCalls, NewlySaved(profile, d))
  /\ IF d.phase = "failed" THEN ReturnFailure(d.failure)
     ELSE IF d.phase = "ok" THEN ReturnSuccess
     ELSE UNCHANGED <<pc, result, errorLogs>>

\* backupAndDeleteProfile.executeRecursiveOperations: executeNext settles
ProfileExecuteNextReturn(ok) ==
  /\ pc = "ProcessingProfile"
  /\ profile.phase = "fetching"
  /\ ProfileStep(ExecuteNextReturn(profile, ok))
  /\ UNCHANGED <<trigger, input, clock, pageSize, folder, live, archive, messages,
                 mtask, status, deleteCalls, otherCalls, live0>>
  /\ Settle(ok, "executeNext", input.fiscalCode)

\* backupAndDeleteProfile.executeOnSingleVersionItem: the save settles
ProfileSaveReturn(k, ok) ==
  /\ pc = "ProcessingProfile"
  /\ profile.phase = "page"
  /\ k \in DOMAIN CurrentPage(profile)
  /\ CurrentPage(profile)[k].st = "archiving"
  /\ LET item == CurrentPage(profile)[k]
         next == AfterSave(item, ok)
     IN /\ archive' = IF ok
                        THEN createBlockBlobFromText(archive,
                               BlobPath(folder, ProfileBlobName(item.rec)),
                               JSON_stringify(item.rec))
                        ELSE archive
        /\ deleteCalls' = Bump(deleteCalls, IF next.st = "deleting" THEN {item.rec} ELSE {})
        /\ ProfileStep(PageSettle(SetItem(profile, k, next), FALSE))
  /\ UNCHANGED <<trigger, input, clock, pageSize, folder, live, messages, mtask,
                 status, otherCalls, live0>>
  /\ Settle(ok, "save", CurrentPage(profile)[k].rec)

\* deleteProfileVersion settles
ProfileDeleteReturn(k, ok) ==
  /\ pc = "ProcessingProfile"
  /\ profile.phase = "page"
  /\ k \in DOMAIN CurrentPage(profile)
  /\ CurrentPage(profile)[k].st = "deleting"
  /\ LET item == CurrentPage(profile)[k]
         next == AfterDelete(item, ok, "deleteProfileVersion")
     IN /\ live' = IF ok THEN live \ {item.rec} ELSE live
        /\ ProfileStep(PageSettle(SetItem(profile, k, next), FALSE))
  /\ UNCHANGED <<trigger, input, clock, pageSize, folder, archive, messages, mtask,
                 status, deleteCalls, otherCalls, live0>>
  /\ Settle(ok, "delete", CurrentPage(profile)[k].rec)

Next ==
  \/ Handler
  \/ \E ok \in BOOLEAN : FindMessagesReturn(ok)
  \/ \E i \in 1..MaxMessages, ok \in BOOLEAN : StatusExecuteNextReturn(i, ok)
  \/ \E i \in 1..MaxMessages, k \in 1..MaxPageLen, ok \in BOOLEAN : StatusSaveReturn(i, k, ok)
  \/ \E i \in 1..MaxMessages, k \in 1..MaxPageLen, ok \in BOOLEAN : StatusDeleteReturn(i, k, ok)
  \/ \E i \in 1..MaxMessages, ok \in BOOLEAN : MessageSaveReturn(i, ok)
  \/ \E i \in 1..MaxMessages, ok \in BOOLEAN : MessageDeleteReturn(i, ok)
  \/ \E ok \in BOOLEAN : ProfileExecuteNextReturn(ok)
  \/ \E k \in 1..MaxPageLen, ok \in BOOLEAN : ProfileSaveReturn(k, ok)
  \/ \E k \in 1..MaxPageLen, ok \in BOOLEAN : ProfileDeleteReturn(k, ok)

Spec == Init /\ [][Next]_vars

\* the activity is called, every collaborator call that is awaited returns in
\* the end (the event loop runs each callback that is due), and the
\* iterators are finite: a step that stays possible is eventually taken
Fairness == WF_vars(Next)

MaxLiveRecords == 5

\* the invocations over a store of at most MaxLiveRecords records
InitLive == Init /\ Cardinality(live) <= MaxLiveRecords

SpecLive == InitLive /\ [][Next]_vars /\ Fairness


(* ------------------- saveDataToBlob on its own --------------------------- *)
MaxSaves == 2

\* the destinations tried: no folder, and two folders
Folders == {Undefined, Defined(Folder(aRequestId, 0)), Defined("backup")}

InitSave ==
  /\ pc = "Idle"
  /\ input \in {i \in Inputs : ActivityInput_decode(i)}
  /\ clock = 0
  /\ pageSize = 1
  /\ folder \in Folders
  /\ live = {}
  /\ live0 = live
  /\ archive = {}
  /\ messages = <<>>
  /\ mtask = <<>>
  /\ status = <<>>
  /\ profile = IdleCascade
  /\ result = NoResult
  /\ errorLogs = 0
  /\ archiveCalls = [r \in AllRecords |-> 0]
  /\ deleteCalls = [r \in AllRecords |-> 0]
  /\ otherCalls = 0
  /\ faults = {}
  /\ firstFault = NoFault
  /\ trigger = IdleTrigger

\* saveDataToBlob({blobService, containerName, folder}, blobName, data) and
\* the callback of createBlockBlobFromText: right(data) after the put, or
\* left(BLOB_FAILURE)
SaveDataToBlob(data, ok) ==
  /\ Cardinality(archive) < MaxSaves
  /\ archive' = IF ok
                  THEN createBlockBlobFromText(archive,
                         BlobPath(folder, BlobName(data)), JSON_stringify(data))
                  ELSE archive
  /\ result' = IF ok THEN NoResult ELSE BlobCreationFailure
  /\ UNCHANGED <<trigger, pc, input, clock, pageSize, folder, live, messages,
                 mtask, status, profile, errorLogs, archiveCalls, deleteCalls,
                 otherCalls, live0, faults, firstFault>>

NextSave == \E data \in AllRecords, ok \in BOOLEAN : SaveDataToBlob(data, ok)

SpecSave == InitSave /\ [][NextSave]_vars

(* ------------------- the activity invoked again -------------------------- *)
MaxReruns == 1
MaxRerunRecords == 3

\* a valid request over a small store, one page per cursor
InitRerun ==
  /\ Init
  /\ ActivityInput_decode(input)
  /\ pageSize = MaxPageLen
  /\ Cardinality(live) <= MaxRerunRecords

\* the orchestrator calls the activity function again with the same input
\* once the previous call has returned: the stores are as the previous call
\* left them, Date.now() has not gone back, everything else starts afresh
\* (live0 keeps the store as the first call found it)
Rerun ==
  /\ pc \in {"Done", "Failed"}
  /\ clock < MaxReruns
  /\ pc' = "Idle"
  /\ clock' \in {clock, clock + 1}
  /\ folder' = Undefined
  /\ messages' = <<>>
  /\ mtask' = <<>>
  /\ status' = <<>>
  /\ profile' = IdleCascade
  /\ result' = NoResult
  /\ errorLogs' = 0
  /\ archiveCalls' = [r \in AllRecords |-> 0]
  /\ deleteCalls' = [r \in AllRecords |-> 0]
  /\ otherCalls' = 0
  /\ faults' = {}
  /\ firstFault' = NoFault
  /\ UNCHANGED <<trigger, input, pageSize, live, archive, live0>>

NextRerun == Next \/ Rerun

SpecRerun == InitRerun /\ [][NextRerun]_vars

(* ------------------- logFailure on its own ------------------------------- *)
MaxLogCalls == 5

\* values handed to logFailure: the members of ActivityResultFailure as the
\* code builds them, and values of no member
LogInputs ==
  {InvalidInputFailure, BlobCreationFailure, toQueryFailure,
   QueryFailure("findMessages"), QueryFailure("deleteMessage"),
   [kind |-> "USER_NOT_FOUND_FAILURE", query |-> ""],
   [kind |-> "DELETE_FAILURE", query |-> ""],
   ActivityResultSuccess,
   [kind |-> "UNKNOWN_FAILURE", query |-> ""]}

InitLog ==
  /\ InitSave
  /\ folder = Undefined

\* logFailure(context)(failure): result holds the value handed in, errorLogs
\* counts context.log.error, pc tells whether the call threw
LogFailure(failure) ==
  /\ pc \in {"Idle", "Logged", "Fault"}
  /\ otherCalls < MaxLogCalls
  /\ otherCalls' = otherCalls + 1
  /\ result' = failure
  /\ LET log == logFailure(failure)
     IN /\ pc' = IF log.thrown THEN "Fault" ELSE "Logged"
        /\ errorLogs' = errorLogs + log.errors
  /\ UNCHANGED <<trigger, input, clock, pageSize, folder, live, archive, messages,
                 mtask, status, profile, archiveCalls, deleteCalls, live0,
                 faults, firstFault>>

NextLog == \E failure \in LogInputs : LogFailure(failure)

SpecLog == InitLog /\ [][NextLog]_vars

(* ------------------- the trigger on its own ------------------------------ *)
InitTrigger ==
  /\ pc = "Idle"
  /\ input \in {i \in Inputs : ActivityInput_decode(i)}
  /\ clock = 0
  /\ pageSize = 1
  /\ folder = Undefined
  /\ live = {}
  /\ live0 = live
  /\ archive = {}
  /\ messages = <<>>
  /\ mtask = <<>>
  /\ status = <<>>
  /\ profile = IdleCascade
  /\ result = NoResult
  /\ errorLogs = 0
  /\ archiveCalls = [r \in AllRecords |-> 0]
  /\ deleteCalls = [r \in AllRecords |-> 0]
  /\ otherCalls = 0
  /\ faults = {}
  /\ firstFault = NoFault
  /\ \/ \E documents \in SeqsUpTo(UserDataProcessing, MaxBatch) :
          trigger = NewTrigger(TRUE, documents)
     \/ trigger = NewTrigger(FALSE, <<>>)

TriggerHandler ==
  /\ trigger.state = "idle"
  /\ trigger' = triggerHandlerResult(trigger)
  /\ UNCHANGED <<pc, input, clock, pageSize, folder, live, archive, messages,
                 mtask, status, profile, result, errorLogs, archiveCalls,
                 deleteCalls, otherCalls, live0, faults, firstFault>>

NextTrigger == TriggerHandler

SpecTrigger == InitTrigger /\ [][NextTrigger]_vars

(* ------------------- iterators that deliver empty pages ------------------ *)
MaxEmptyPages == 2

\* the ways an iterator may deliver the result set s: pages of 1..MaxPageLen
\* items, and at most e pages some([]) with no item anywhere among them
RECURSIVE PageSplits(_, _)
PageSplits(s, e) ==
  (IF s = <<>> THEN {<<>>}
   ELSE UNION {{<<Take(s, n)>> \o rest : rest \in PageSplits(Drop(s, n), e)} :
                 n \in 1..MaxPageLen})
    \cup (IF e > 0 THEN {<<(<<>>)>> \o rest : rest \in PageSplits(s, e - 1)} ELSE {})

\* the cascade opened on an iterator that will deliver the pages `pages`
CascadeOver(pages) == [NewCascade(<<>>, 1) EXCEPT !.cursor = pages]

\* the invocation right after findMessages resolved with at most one
\* message (the status cascade of the message is fetching its first page),
\* or with none (the profile cascade is fetching its first page)
InitPages ==
  /\ input \in {i \in Inputs : ActivityInput_decode(i)}
  /\ clock = 0
  /\ pageSize = MaxPageLen
  /\ folder = Defined(Folder(input.userDataDeleteRequestId, clock))
  /\ \E nm \in 0..1, np \in 0..MaxVersions :
       \E ns \in [1..nm -> 0..MaxVersions] : live = Store(nm, ns, np)
  /\ live0 = live
  /\ archive = {}
  /\ messages = findMessages(live, input.fiscalCode)
  /\ mtask = [i \in DOMAIN messages |->
                [rec |-> messages[i], st |-> "status", failure |-> NoFailure]]
  /\ \E split \in [DOMAIN messages ->
                     PageSplits(findAllStatusVersionsByModelId(live, MessageId(1)),
                                MaxEmptyPages)] :
       status = [i \in DOMAIN messages |-> CascadeOver(split[i])]
  /\ IF messages = <<>>
       THEN /\ pc = "ProcessingProfile"
            /\ \E pages \in PageSplits(findAllProfileVersionsByModelId(live, input.fiscalCode),
                                        MaxEmptyPages) :
                 profile = CascadeOver(pages)
       ELSE /\ pc = "ProcessingMessages"
            /\ profile = IdleCascade
  /\ result = NoResult
  /\ errorLogs = 0
  /\ archiveCalls = [r \in AllRecords |-> 0]
  /\ deleteCalls = [r \in AllRecords |-> 0]
  /\ otherCalls = 0
  /\ faults = {}
  /\ firstFault = NoFault
  /\ trigger = IdleTrigger

NextPages ==
  \/ \E i \in 1..MaxMessages, ok \in BOOLEAN : StatusExecuteNextReturn(i, ok)
  \/ \E i \in 1..MaxMessages, k \in 1..MaxPageLen, ok \in BOOLEAN : StatusSaveReturn(i, k, ok)
  \/ \E i \in 1..MaxMessages, k \in 1..MaxPageLen, ok \in BOOLEAN : StatusDeleteReturn(i, k, ok)
  \/ \E i \in 1..MaxMessages, ok \in BOOLEAN : MessageSaveReturn(i, ok)
  \/ \E i \in 1..MaxMessages, ok \in BOOLEAN : MessageDeleteReturn(i, ok)
  \/ \E ok \in BOOLEAN : ProfileExecuteNextReturn(ok)
  \/ \E k \in 1..MaxPageLen, ok \in BOOLEAN : ProfileSaveReturn(k, ok)
  \/ \E k \in 1..MaxPageLen, ok \in BOOLEAN : ProfileDeleteReturn(k, ok)

SpecPages == InitPages /\ [][NextPages]_vars

(* ---------------------------- observations ------------------------------ *)
\* the archive holds the object of record r, with r's content, in the
\* invocation's folder
Archived(r) ==
  \E b \in archive :
    b.path = BlobPath(folder, BlobName(r)) /\ b.text = JSON_stringify(r)

PageItems(page) == {page[k] : k \in DOMAIN page}

ItemsOf(c) == UNION {PageItems(c.pages[q]) : q \in DOMAIN c.pages}

AllCascades == {status[i] : i \in DOMAIN status} \cup {profile}

\* every backup-then-delete task of the invocation: page items and messages
AllTasks ==
  UNION {ItemsOf(c) : c \in AllCascades} \cup {mtask[i] : i \in DOMAIN mtask}

StatusRecordsOf(store, i) ==
  {r \in store : r.type = "message-status" /\ r.key = MessageId(i)}

ProfileRecords == {r \in AllRecords : r.type = "profile"}

ProfileTouched ==
  \/ profile.phase # "idle"
  \/ profile.fetchCalls > 0
  \/ \E r \in ProfileRecords : archiveCalls[r] > 0 \/ deleteCalls[r] > 0

(* ---------------------------- C1 ---------------------------------------- *)
\* C1 (no-orphan-delete): a delete is issued for a record only once the
\* archive object of that record has been written, and a record whose
\* archive write failed never has a delete issued.
C1_NoOrphanDelete ==
  /\ \A r \in AllRecords : deleteCalls[r] > 0 => Archived(r)
  /\ \A t \in AllTasks :
       t.failure.kind = "BLOB_FAILURE" => deleteCalls[t.rec] = 0
  /\ \A r \in AllRecords : <<"save", r>> \in faults => deleteCalls[r] = 0

C1_Witness ==
  /\ \E t \in AllTasks : t.failure.kind = "BLOB_FAILURE"
  /\ \E r \in AllRecords : deleteCalls[r] > 0 /\ r \notin live

(* ---------------------------- C2 ---------------------------------------- *)
\* C2 (parent after children, messages): the archive write and the delete of
\* a message are issued only after its status cascade ended successfully
\* (cursor exhausted, every status version archived and deleted); a message
\* whose status cascade failed never has deleteMessage invoked.
C2_ParentAfterChildren ==
  \A i \in DOMAIN mtask :
    /\ (archiveCalls[mtask[i].rec] > 0 \/ deleteCalls[mtask[i].rec] > 0) =>
         /\ status[i].phase = "ok"
         /\ status[i].cursor = <<>>
         /\ \A r \in StatusRecordsOf(live0, i) :
              r \notin live /\ Archived(r) /\ deleteCalls[r] > 0
    /\ status[i].phase = "failed" =>
         archiveCalls[mtask[i].rec] = 0 /\ deleteCalls[mtask[i].rec] = 0

C2_Witness ==
  \E i \in DOMAIN mtask, j \in DOMAIN mtask :
    /\ StatusRecordsOf(live0, i) # {}
    /\ deleteCalls[mtask[i].rec] > 0
    /\ status[j].phase = "failed"
    /\ StatusRecordsOf(live0, j) # {}

(* ---------------------------- C3 ---------------------------------------- *)
\* C3 (profile last): the profile cascade (its first page fetch, any profile
\* archive write or delete) starts only after the status cascade and the
\* message step of every message succeeded; when a message-level step failed
\* no profile page is fetched and no profile version is archived or deleted.
C3_ProfileLast ==
  /\ ProfileTouched =>
       /\ pc \in {"ProcessingProfile", "Done", "Failed"}
       /\ messages = findMessages(live0, input.fiscalCode)
       /\ \A i \in DOMAIN mtask : mtask[i].st = "done" /\ status[i].phase = "ok"
       /\ \A r \in live0 :
            r.type \in {"message", "message-status"} => r \notin live /\ Archived(r)
  /\ (\E i \in DOMAIN mtask : mtask[i].st = "failed") => ~ProfileTouched

C3_Witness ==
  /\ \E r \in ProfileRecords : deleteCalls[r] > 0
  /\ Len(messages) >= 2
  /\ \E r \in live0 : r.type = "message-status"

(* ---------------------------- C4 ---------------------------------------- *)
\* C4 (success implies completeness): when the invocation returns SUCCESS,
\* every message, status version and profile version of the user has been
\* archived and deleted in the invocation and no collaborator call failed;
\* so a failed archive write, delete or page fetch never leads to SUCCESS.
C4_SuccessImpliesComplete ==
  result.kind = "SUCCESS" =>
    /\ \A r \in live0 :
         /\ r \notin live
         /\ Archived(r)
         /\ archiveCalls[r] >= 1
         /\ deleteCalls[r] >= 1
    /\ faults = {}
    /\ \A t \in AllTasks : t.st = "done"
    /\ \A c \in AllCascades : c.phase = "ok" /\ c.cursor = <<>>

C4_Witness ==
  /\ result.kind = "SUCCESS"
  /\ Len(messages) >= 2
  /\ \E r \in live0 : r.type = "message-status"
  /\ \E r \in live0 : r.type = "profile"


(* ---------------------------- C5 ---------------------------------------- *)
\* an operation (page fetch, archive write or delete) of message j was issued
OpsIssued(j) ==
  \/ status[j].fetchCalls > 0
  \/ archiveCalls[mtask[j].rec] > 0
  \/ deleteCalls[mtask[j].rec] > 0
  \/ \E r \in StatusRecordsOf(AllRecords, MessageIndex(mtask[j].rec)) :
       archiveCalls[r] > 0 \/ deleteCalls[r] > 0

\* an operation of message i is in flight
InFlight(i) ==
  \/ status[i].phase = "fetching"
  \/ \E t \in ItemsOf(status[i]) : ~Resolved(t)
  \/ mtask[i].st \in {"archiving", "deleting"}

C6_Original ==
  \A c \in AllCascades : \A q \in DOMAIN c.pages :
    \A k \in DOMAIN c.pages[q], j \in DOMAIN c.pages[q] :
      (k < j /\ c.pages[q][k].failure.kind = "BLOB_FAILURE") =>
        deleteCalls[c.pages[q][j].rec] = 0

\* C6 as amended: when the archive write of item k of a page fails, delete
\* is never invoked for item k and no item of a later page is archived or
\* deleted (the failed page is the last one fetched); the other items of the
\* same page run concurrently and may still be deleted.
C6_FailFastAcrossPages ==
  \A c \in AllCascades : \A q \in DOMAIN c.pages : \A k \in DOMAIN c.pages[q] :
    c.pages[q][k].failure.kind = "BLOB_FAILURE" =>
      /\ deleteCalls[c.pages[q][k].rec] = 0
      /\ q = Len(c.pages)
      /\ c.phase \in {"page", "failed"}
      /\ \A p \in DOMAIN c.cursor : \A r \in RecordSet(c.cursor[p]) :
           archiveCalls[r] = 0 /\ deleteCalls[r] = 0 /\ r \in live

C6_Witness ==
  \E c \in AllCascades :
    /\ c.phase = "failed"
    /\ c.cursor # <<>>
    /\ Len(c.pages) >= 1
    /\ Len(CurrentPage(c)) >= 2
    /\ CurrentPage(c)[1].failure.kind = "BLOB_FAILURE"
    /\ CurrentPage(c)[2].st = "done"
    /\ CurrentPage(c)[2].rec \notin live

(* ---------------------------- C7 ---------------------------------------- *)
\* C7 (no page after a failed page): a cursor's next page is fetched only
\* after every item of the current page was archived and deleted; once an
\* item of a page failed, executeNext is not invoked again and the cascade
\* fails with the failure of an item of that page.
C7_NoPageAfterFailedPage ==
  \A c \in AllCascades :
    /\ \A q \in DOMAIN c.pages :
         (q < Len(c.pages) \/ c.phase \in {"fetching", "ok"}) =>
           \A t \in PageItems(c.pages[q]) :
             t.st = "done" /\ t.rec \notin live /\ Archived(t.rec)
    /\ (\E t \in ItemsOf(c) : t.st = "failed") =>
         /\ c.phase \in {"page", "failed"}
         /\ c.fetchCalls = Len(c.pages)
    /\ (c.phase = "failed" /\ \E t \in ItemsOf(c) : t.st = "failed") =>
         \E t \in PageItems(CurrentPage(c)) : t.st = "failed" /\ c.failure = t.failure

C7_Witness ==
  \E c \in AllCascades :
    /\ c.phase = "failed"
    /\ Len(c.pages) = 2
    /\ c.cursor # <<>>
    /\ \E t \in PageItems(CurrentPage(c)) : t.st = "failed"

(* ---------------------------- C8 ---------------------------------------- *)
\* the archive-outage scenario: two or more messages, each with status
\* versions, the invocation returned, and the only collaborator call that
\* failed is the archive write of the first status version of the first message
ArchiveOutage ==
  /\ pc \in {"Done", "Failed"}
  /\ Len(findMessages(live0, aFiscalCode)) >= 2
  /\ \A i \in DOMAIN findMessages(live0, aFiscalCode) : StatusRecordsOf(live0, i) # {}
  /\ faults = {<<"save", RetrievedMessageStatus(1, 0)>>}

TotalCalls(calls, type) ==
  LET S == {r \in AllRecords : r.type = type}
      sum[T \in SUBSET S] ==
        IF T = {} THEN 0
        ELSE LET r == CHOOSE x \in T : TRUE IN calls[r] + sum[T \ {r}]
  IN sum[S]

\* C9 (healthy run): with a valid input and collaborators that never fail,
\* the invocation never fails, no record is archived or deleted twice, and it
\* returns SUCCESS having issued exactly one archive write and one delete for
\* each record of the user, nothing for other records, and no call on the
\* notification models or the message-content blob service.
C9_HealthyRun ==
  (ActivityInput_decode(input) /\ faults = {}) =>
    /\ pc # "Failed"
    /\ \A r \in AllRecords : archiveCalls[r] <= 1 /\ deleteCalls[r] <= 1
    /\ otherCalls = 0
    /\ pc = "Done" =>
         /\ result = ActivityResultSuccess
         /\ \A r \in live0 : archiveCalls[r] = 1 /\ deleteCalls[r] = 1
         /\ \A r \in AllRecords \ live0 : archiveCalls[r] = 0 /\ deleteCalls[r] = 0
         /\ live = {}
         /\ errorLogs = 0

\* the scenario of the claim: 2 messages with 1 status version each and 2
\* profile versions give 2+2+2 archive writes and 2+2+2 deletes
C9_Witness ==
  /\ pc = "Done"
  /\ faults = {}
  /\ live0 = Store(2, <<1, 1>>, 2)
  /\ TotalCalls(archiveCalls, "message-status") = 2
  /\ TotalCalls(archiveCalls, "message") = 2
  /\ TotalCalls(archiveCalls, "profile") = 2
  /\ TotalCalls(deleteCalls, "message-status") = 2
  /\ TotalCalls(deleteCalls, "message") = 2
  /\ TotalCalls(deleteCalls, "profile") = 2

(* ---------------------------- C10 --------------------------------------- *)
NoCalls ==
  /\ \A r \in AllRecords : archiveCalls[r] = 0 /\ deleteCalls[r] = 0
  /\ \A c \in AllCascades : c.fetchCalls = 0
  /\ otherCalls = 0

\* C10 (invalid input): an input that lacks a valid fiscalCode or
\* userDataDeleteRequestId makes the invocation return INVALID_INPUT_FAILURE
\* without any query, page fetch, archive write or delete: the live store and
\* the archive are unchanged.
C10_InvalidInput ==
  (input.fiscalCode # aFiscalCode \/ input.userDataDeleteRequestId # aRequestId) =>
    /\ pc \in {"Idle", "Failed"}
    /\ pc = "Failed" => result = InvalidInputFailure
    /\ NoCalls
    /\ messages = <<>>
    /\ live = live0
    /\ archive = {}
    /\ faults = {}

C10_Witness ==
  /\ pc = "Failed"
  /\ result.kind = "INVALID_INPUT_FAILURE"
  /\ live # {}
  /\ errorLogs = 1


(* ---------------------------- C11 --------------------------------------- *)
\* C11 (message query failure): when the enumeration of the user's messages
\* fails, the invocation returns QUERY_FAILURE with query "findMessages" and
\* no page fetch, archive write or delete is issued, the profile cascade
\* included.
C11_FindMessagesFailure ==
  <<"findMessages", aFiscalCode>> \in faults =>
    /\ pc = "Failed"
    /\ result.kind = "QUERY_FAILURE"
    /\ result.query = "findMessages"
    /\ NoCalls
    /\ ~ProfileTouched
    /\ messages = <<>>
    /\ live = live0
    /\ archive = {}

C11_Witness ==
  /\ <<"findMessages", aFiscalCode>> \in faults
  /\ result.query = "findMessages"
  /\ \E r \in live : r.type = "message"
  /\ \E r \in live : r.type = "profile"


(* ---------------------------- C12 --------------------------------------- *)
\* C12 (delete failure kind): when the archive write of a record succeeded
\* and its delete failed, the only failure of the invocation, the result is
\* of kind DELETE_FAILURE and the archive object of the record is kept.
C12_DeleteFailureKind ==
  \A r \in AllRecords :
    (pc = "Failed" /\ faults = {<<"delete", r>>}) =>
      /\ result.kind = "DELETE_FAILURE"
      /\ Archived(r)


(* ---------------------------- C13 --------------------------------------- *)
\* the cascades whose executeNext failed
FetchFailedCascades ==
  {status[i] : i \in {j \in DOMAIN status : <<"executeNext", MessageId(j)>> \in faults}}
    \cup (IF <<"executeNext", aFiscalCode>> \in faults THEN {profile} ELSE {})

\* no item of the page that was not delivered, or of a later page, is touched
RestUntouched(c) ==
  \A p \in DOMAIN c.cursor : \A r \in RecordSet(c.cursor[p]) :
    archiveCalls[r] = 0 /\ deleteCalls[r] = 0 /\ r \in live

CursorOperationNames == {"executeNext", "findAllVersionsByModelId"}

\* C13 as claimed: a failed page fetch fails the cascade with a QUERY_FAILURE
\* whose query field names the cursor operation, and no item of that or any
\* later page is archived or deleted.
C13_Original ==
  \A c \in FetchFailedCascades :
    /\ c.phase = "failed"
    /\ c.failure.kind = "QUERY_FAILURE"
    /\ c.failure.query \in CursorOperationNames
    /\ RestUntouched(c)

\* C13 as amended: a failed page fetch fails the cascade with a QUERY_FAILURE
\* whose query field is not set (toQueryFailure gives kind and reason only),
\* and no item of that or any later page is archived or deleted.
C13_PageFetchFailure ==
  /\ \A c \in FetchFailedCascades :
       /\ c.phase = "failed"
       /\ c.failure.kind = "QUERY_FAILURE"
       /\ c.failure.query = "undefined"
       /\ \A t \in ItemsOf(c) : t.st = "done"
       /\ RestUntouched(c)
  /\ <<"executeNext", aFiscalCode>> \in faults =>
       pc = "Failed" /\ result = profile.failure

C13_Witness ==
  /\ \E c \in FetchFailedCascades : Len(c.pages) >= 1 /\ c.cursor # <<>>
  /\ \E i \in DOMAIN status : status[i] \in FetchFailedCascades


(* ---------------------------- C14 --------------------------------------- *)
RECURSIVE Flatten(_)
Flatten(pages) ==
  IF pages = <<>> THEN <<>> ELSE Head(pages) \o Flatten(Tail(pages))

PagesDelivered(c) == [q \in DOMAIN c.pages |-> RecordsOf(c.pages[q])]

\* C14 (pagination completeness): when every item step succeeds, the
\* message-status cascade returns the concatenation P1 ++ ... ++ Pn of the
\* pages its cursor delivered, in page and item order, every item once, and
\* the end-of-data signal ends the traversal with a success.
C14_PaginationComplete ==
  \A i \in DOMAIN status :
    /\ status[i].phase \in {"fetching", "ok"} =>
         status[i].out = Flatten(PagesDelivered(status[i]))
    /\ status[i].phase = "ok" =>
         /\ status[i].cursor = <<>>
         /\ status[i].out =
              Flatten(Paginate(findAllStatusVersionsByModelId(live0, MessageId(i)), pageSize))
         /\ Cardinality(RecordSet(status[i].out)) = Len(status[i].out)
         /\ RecordSet(status[i].out) = StatusRecordsOf(live0, i)
    /\ (status[i].cursor = <<>> /\ status[i].phase = "failed") =>
         \/ <<"executeNext", MessageId(i)>> \in faults
         \/ \E t \in ItemsOf(status[i]) : t.st = "failed"

\* the cursor delivered [A,B], [C] and then its end-of-data signal
C14_Witness ==
  \E i \in DOMAIN status :
    /\ status[i].phase = "ok"
    /\ Len(status[i].pages) = 2
    /\ Len(status[i].pages[1]) = 2
    /\ Len(status[i].out) = 3
    /\ status[i].fetchCalls = 3


(* ---------------------------- C15 --------------------------------------- *)
\* C15 (archive path): saveDataToBlob writes the object at
\* <folder>/<object-name> when the destination's folder is set and at exactly
\* <object-name>, without prefix or separator, when the folder is unset.
C15_ArchivePath ==
  \A b \in archive :
    \E r \in AllRecords :
      /\ b.text = JSON_stringify(r)
      /\ b.path = IF folder = Undefined
                    THEN BlobName(r)
                    ELSE folder[1] \o "/" \o BlobName(r)

(* ---------------------------- C16 --------------------------------------- *)
EntityTuple(r) == <<r.type, r.id, r.version>>

\* the records whose name, under the folder of the invocation, is the path
RecordsNamed(path) ==
  {r \in AllRecords : BlobPath(folder, BlobName(r)) = path}

\* the records an archive write was issued for
NamesIssued == {r \in AllRecords : archiveCalls[r] >= 1}

\* C16 (collision-free naming): within the folder of one invocation two
\* records of different (entity-type, id, version) never get the same object
\* name; the names are profile--<version>.json,
\* message-status--<id>--<version>.json and message--<id>.json, so every
\* archive object is the copy of exactly one record and no copy is overwritten
\* by the copy of another record.
C16_CollisionFree ==
  /\ \A r \in NamesIssued :
       BlobName(r) =
         CASE r.type = "profile" -> "profile--" \o ToString(r.version) \o ".json"
           [] r.type = "message-status" ->
                "message-status--" \o r.id \o "--" \o ToString(r.version) \o ".json"
           [] r.type = "message" -> "message--" \o r.id \o ".json"
  /\ \A r1, r2 \in NamesIssued :
       EntityTuple(r1) # EntityTuple(r2) => BlobName(r1) # BlobName(r2)
  /\ \A b \in archive :
       /\ Cardinality(RecordsNamed(b.path)) = 1
       /\ \A r \in RecordsNamed(b.path) : b.text = JSON_stringify(r)
  /\ \A r \in AllRecords : deleteCalls[r] >= 1 => Archived(r)

C16_Witness ==
  /\ pc = "Done"
  /\ Archived(RetrievedProfile(0))
  /\ Archived(RetrievedProfile(1))
  /\ Archived(RetrievedMessage(1))
  /\ Archived(RetrievedMessageStatus(1, 0))
  /\ Archived(RetrievedMessageStatus(1, 1))
  /\ Archived(RetrievedMessageStatus(2, 0))
  /\ Cardinality(archive) = Cardinality(live0)

(* ---------------------------- C17 --------------------------------------- *)
\* C17 as claimed: archiving the same record twice, also in a later call of
\* the activity for the same request, writes to the same path, so the archive
\* never holds two objects with the copy of one record.
C17_Original ==
  \A b1, b2 \in archive : b1.text = b2.text => b1.path = b2.path

\* the objects holding the copy of record r
CopiesOf(r) == {b \in archive : b.text = JSON_stringify(r)}

\* C17 (idempotent naming, amended): the object name of a record is a function
\* of its (entity type, id, version) alone, and the path is
\* <request id>-<timestamp of the call>/<object name>; two writes of a record
\* under the same timestamp go to the same path and the second overwrites the
\* first, while a later call with a later timestamp writes to a new folder
\* and leaves the earlier object in place.
C17_DeterministicName ==
  /\ \A b \in archive :
       \E r \in AllRecords, t \in 0..clock :
         /\ b.text = JSON_stringify(r)
         /\ b.path = aRequestId \o "-" \o ToString(t) \o "/" \o BlobName(r)
  /\ \A r \in AllRecords :
       /\ Cardinality(CopiesOf(r)) <= clock + 1
       /\ \A b1, b2 \in CopiesOf(r) : b1.path = b2.path => b1 = b2
  /\ \A r \in AllRecords :
       (pc # "Idle" /\ deleteCalls[r] >= 1) =>
         [path |-> Folder(aRequestId, clock) \o "/" \o BlobName(r),
          text |-> JSON_stringify(r)] \in archive

C17_Witness ==
  /\ clock = 1
  /\ \E r \in AllRecords :
       /\ archiveCalls[r] >= 1
       /\ Cardinality(CopiesOf(r)) = 2

(* ---------------------------- C18 --------------------------------------- *)
\* position of the invocation in the order Validating (Idle, the decode),
\* QueryingMessages, ProcessingMessages, ProcessingProfile, terminal
Rank(p) ==
  CASE p = "Idle" -> 0
    [] p = "QueryingMessages" -> 1
    [] p = "ProcessingMessages" -> 2
    [] p = "ProcessingProfile" -> 3
    [] p \in {"Done", "Failed"} -> 4

Terminal == {"Done", "Failed"}

\* no page fetch, archive write or delete is awaited
Quiescent ==
  /\ \A c \in AllCascades : c.phase # "fetching"
  /\ \A t \in AllTasks : t.st \notin {"archiving", "deleting"}

\* C18 (invocation state machine): an invocation moves through Validating,
\* QueryingMessages, ProcessingMessages, ProcessingProfile and Done in that
\* order and never back, may move to Failed from any non-terminal state, and
\* Done and Failed are terminal: once the result is reported nothing is issued
\* and no page fetch, archive write or delete is still in flight.
C18_StateMachine ==
  /\ [](pc \in Terminal => (Quiescent /\ result # NoResult))
  /\ [](pc \notin Terminal => result = NoResult)
  /\ [][/\ pc \notin Terminal
        /\ Rank(pc') >= Rank(pc)
        /\ pc = "Idle" => pc' \in {"QueryingMessages", "Failed"}
        /\ pc = "QueryingMessages" =>
             pc' \in {"ProcessingMessages", "ProcessingProfile", "Failed"}
        /\ pc' = "Done" => pc = "ProcessingProfile"]_vars

C18_Witness ==
  /\ pc = "Done"
  /\ Len(messages) = MaxMessages
  /\ \A i \in DOMAIN status : status[i].fetchCalls >= 2
  /\ profile.fetchCalls >= 2
  /\ Quiescent

(* ---------------------------- C19 --------------------------------------- *)
\* the failure the code builds for a collaborator call that settled with an
\* error
FailureOf(fault) ==
  CASE fault[1] = "findMessages" -> QueryFailure("findMessages")
    [] fault[1] = "executeNext" -> toQueryFailure
    [] fault[1] = "save" -> BlobCreationFailure
    [] fault[1] = "delete" ->
         QueryFailure(CASE fault[2].type = "profile" -> "deleteProfileVersion"
                        [] fault[2].type = "message-status" -> "deleteMessageStatusVersion"
                        [] fault[2].type = "message" -> "deleteMessage")

\* C19 as claimed: the failure returned is the one of the operation that
\* failed earliest in the execution.
C19_Original ==
  (pc = "Failed" /\ firstFault # NoFault) => result = FailureOf(firstFault)

\* the first position of a failed task
FirstFailed(tasks) ==
  {j \in DOMAIN tasks :
     /\ tasks[j].st = "failed"
     /\ \A h \in DOMAIN tasks : h < j => tasks[h].st # "failed"}

\* C19 (failure returned, amended): the result of a failed invocation is the
\* failure of one of the operations that failed, tagged with that operation's
\* kind; among messages processed concurrently it is the failure of the first
\* failed message in enumeration order, and among the items of a page the
\* failure of the first failed item in page order, whichever failed first in
\* time; when a single operation failed it is the failure of that operation.
C19_LeftmostFailureWins ==
  /\ pc = "Failed" =>
       /\ result.kind \in {"INVALID_INPUT_FAILURE", "QUERY_FAILURE", "BLOB_FAILURE"}
       /\ ActivityInput_decode(input) => \E f \in faults : result = FailureOf(f)
       /\ ~ActivityInput_decode(input) => result = InvalidInputFailure /\ faults = {}
       /\ Cardinality(faults) = 1 => result = FailureOf(firstFault)
       /\ \A i \in FirstFailed(mtask) : result = mtask[i].failure
       /\ (profile.phase = "failed") => result = profile.failure
  /\ \A c \in AllCascades :
       (c.phase = "failed" /\ \E t \in ItemsOf(c) : t.st = "failed") =>
         \A k \in FirstFailed(CurrentPage(c)) : c.failure = CurrentPage(c)[k].failure
  /\ \A i \in DOMAIN mtask :
       (mtask[i].st = "failed" /\ status[i].phase = "failed") =>
         mtask[i].failure = status[i].failure

\* two operations of different kinds failed and the one that failed later is
\* returned
C19_Witness ==
  /\ pc = "Failed"
  /\ Cardinality(faults) >= 2
  /\ result # FailureOf(firstFault)
  /\ \E f \in faults : result = FailureOf(f)

(* ---------------------------- C20 --------------------------------------- *)
\* C20 (exhaustive failure handling): for each of the five failure kinds
\* INVALID_INPUT_FAILURE, QUERY_FAILURE, BLOB_FAILURE, USER_NOT_FOUND_FAILURE
\* and DELETE_FAILURE logFailure emits exactly one error log and does not
\* reach the impossible-case assertion; for a value of any other kind it
\* emits nothing and the assertion raises a fault.
C20_ExhaustiveLogging ==
  [][IF result'.kind \in {"INVALID_INPUT_FAILURE", "QUERY_FAILURE", "BLOB_FAILURE",
                          "USER_NOT_FOUND_FAILURE", "DELETE_FAILURE"}
       THEN errorLogs' = errorLogs + 1 /\ pc' = "Logged"
       ELSE errorLogs' = errorLogs /\ pc' = "Fault"]_vars

C20_Witness ==
  /\ pc = "Fault"
  /\ result.kind = "UNKNOWN_FAILURE"
  /\ otherCalls = MaxLogCalls
  /\ errorLogs = MaxLogCalls - 1

(* ---------------------------- C21 --------------------------------------- *)
\* C21 (trigger dispatch): for any batch of documents the trigger starts
\* exactly one orchestration per DOWNLOAD or DELETE document in PENDING
\* status, raises exactly one abort event per DELETE document in ABORTED
\* status, starts and raises nothing for a document in WIP status (nor for an
\* input that is no batch), and the three classifiers accept pairwise
\* disjoint sets of documents.
C21_TriggerDispatch ==
  /\ trigger.state = "returned" =>
       \A i \in DOMAIN trigger.documents :
         LET doc == trigger.documents[i] IN
         /\ trigger.startNew[i] =
              IF doc.choice \in {"DOWNLOAD", "DELETE"} /\ doc.status = "PENDING"
                THEN 1 ELSE 0
         /\ trigger.raiseEvent[i] =
              IF doc.choice = "DELETE" /\ doc.status = "ABORTED" THEN 1 ELSE 0
         /\ doc.status = "WIP" =>
              trigger.startNew[i] = 0 /\ trigger.raiseEvent[i] = 0
         /\ ~(ProcessableUserDataDownload(doc) /\ ProcessableUserDataDelete(doc))
         /\ ~(ProcessableUserDataDownload(doc) /\ ProcessableUserDataDeleteAbort(doc))
         /\ ~(ProcessableUserDataDelete(doc) /\ ProcessableUserDataDeleteAbort(doc))
  /\ trigger.state = "thrown" =>
       \A i \in DOMAIN trigger.documents :
         trigger.startNew[i] = 0 /\ trigger.raiseEvent[i] = 0

C21_Witness ==
  /\ trigger.state = "returned"
  /\ trigger.documents =
       <<[choice |-> "DOWNLOAD", status |-> "PENDING"],
         [choice |-> "DELETE", status |-> "ABORTED"],
         [choice |-> "DELETE", status |-> "WIP"]>>
  /\ trigger.startNew = <<1, 0, 0>>
  /\ trigger.raiseEvent = <<0, 1, 0>>

(* ---------------------------- C22 --------------------------------------- *)
\* C22 as claimed: when the cursor returns a page with zero items (or no
\* page) the processor stops and does not invoke the next-page operation
\* again.
C22_Original ==
  \A c \in AllCascades :
    \A q \in DOMAIN c.pages :
      c.pages[q] = <<>> => (c.phase = "ok" /\ c.fetchCalls = q)

\* C22 (end of the traversal, amended): the traversal ends, with an empty
\* sequence for that step and no further next-page call, only when the cursor
\* returns an absent page; a present page with zero items processes nothing,
\* adds nothing to the result, and the next-page operation is invoked again,
\* so the items of the pages after it are still processed.
C22_AbsentPageEnds ==
  \A c \in AllCascades :
    /\ c.phase = "ok" =>
         /\ c.cursor = <<>>
         /\ c.fetchCalls = Len(c.pages) + 1
         /\ \A t \in ItemsOf(c) : t.st = "done"
    /\ \A q \in DOMAIN c.pages :
         c.pages[q] = <<>> =>
           /\ c.fetchCalls >= q + 1
           /\ c.phase = "fetching" => c.fetchCalls = Len(c.pages) + 1
    /\ c.phase \in {"fetching", "page", "failed"} => c.fetchCalls >= Len(c.pages)
    /\ c.fetchCalls <= Len(c.pages) + 1
    /\ \A i \in DOMAIN status :
         (c = status[i] /\ c.phase \in {"fetching", "ok"}) =>
           c.out = Flatten(PagesDelivered(c))

C22_Witness ==
  \E c \in AllCascades :
    /\ c.phase = "ok"
    /\ Len(c.pages) >= 3
    /\ c.pages[1] = <<>>
    /\ c.pages[2] # <<>>
    /\ c.pages[3] = <<>>

(* ---------------------------- C23 --------------------------------------- *)
\* C23 (logging at the boundary): an invocation that returns a failure has
\* emitted exactly one error log, emitted in the step that returns the
\* failure; an invocation that returns SUCCESS has emitted none; no step
\* before the result is returned logs, however many operations failed.
C23_LogAtBoundary ==
  /\ [](pc = "Failed" =>
          /\ errorLogs = 1
          /\ result.kind \in {"INVALID_INPUT_FAILURE", "QUERY_FAILURE", "BLOB_FAILURE"})
  /\ [](pc = "Done" => (errorLogs = 0 /\ result = ActivityResultSuccess))
  /\ [](pc \notin {"Done", "Failed"} => errorLogs = 0)
  /\ [][errorLogs' # errorLogs =>
          /\ pc # "Failed"
          /\ pc' = "Failed"
          /\ result' # result
          /\ errorLogs' = errorLogs + 1]_vars

C23_Witness ==
  /\ pc = "Failed"
  /\ errorLogs = 1
  /\ Cardinality(faults) >= 3
  /\ result.kind = "BLOB_FAILURE"

(* ---------------------------- C24 --------------------------------------- *)
\* C24 (retry safety): after an invocation that failed at any point, an
\* invocation for the same user in which no collaborator call fails returns
\* SUCCESS, and afterwards the live store holds no message, message-status
\* version or profile version of the user, and every record the user had
\* has an archive object with its content.
C24_RetrySafe ==
  (pc \in {"Done", "Failed"} /\ faults = {}) =>
    /\ pc = "Done"
    /\ result = ActivityResultSuccess
    /\ live = {}
    /\ \A r \in live0 : CopiesOf(r) # {}

\* the first call archived and deleted the status, archived the message and
\* failed to delete it, and never reached the profile; the second call is
\* healthy
C24_Witness ==
  /\ pc = "Done"
  /\ faults = {}
  /\ clock = 1
  /\ live = {}
  /\ live0 = {RetrievedMessage(1), RetrievedMessageStatus(1, 0), RetrievedProfile(0)}
  /\ {b.path : b \in CopiesOf(RetrievedMessageStatus(1, 0))} =
       {BlobPath(Defined(Folder(aRequestId, 0)), BlobName(RetrievedMessageStatus(1, 0)))}
  /\ Cardinality(CopiesOf(RetrievedMessage(1))) = 2
  /\ {b.path : b \in CopiesOf(RetrievedProfile(0))} =
       {BlobPath(Defined(Folder(aRequestId, 1)), BlobName(RetrievedProfile(0)))}

(* ---------------------------- C25 --------------------------------------- *)
\* C25 (termination): if every collaborator call eventually returns and every
\* cursor eventually yields its end-of-data signal, every invocation
\* eventually reaches Done or Failed, and it returns exactly one result: the
\* result is set in the step that reaches Done or Failed and never changes.
C25_Termination ==
  /\ <>(pc \in {"Done", "Failed"} /\ result # NoResult)
  /\ [][/\ result # NoResult => result' = result
        /\ pc \in {"Done", "Failed"} => pc' = pc
        /\ (result' # result) = (pc' \in {"Done", "Failed"} /\ pc' # pc)]_vars

C25_Witness ==
  /\ pc \in {"Done", "Failed"}
  /\ result # NoResult
  /\ Cardinality(live0) = MaxLiveRecords
  /\ \A c \in AllCascades : c.phase = "ok" /\ c.fetchCalls >= 2

(* ---------------------------- C26 --------------------------------------- *)
\* C26 (archived content is preserved): at every state of an invocation each
\* record that has been deleted from the live store has an archive object in
\* the folder of the invocation whose content is that record, and no step of
\* the invocation removes an archive object or replaces its content.
C26_ArchivePreserved ==
  /\ [](\A r \in live0 \ live :
          [path |-> TemplateString(folder) \o "/" \o BlobName(r),
           text |-> JSON_stringify(r)] \in archive)
  /\ [](live \subseteq live0)
  /\ [][archive \subseteq archive']_vars

C26_Witness ==
  /\ pc = "ProcessingProfile"
  /\ {RetrievedMessageStatus(1, 0), RetrievedMessageStatus(1, 1),
      RetrievedMessageStatus(2, 0), RetrievedMessage(1), RetrievedMessage(2),
      RetrievedProfile(0)} \subseteq live0 \ live
  /\ RetrievedProfile(1) \in live
  /\ Archived(RetrievedProfile(1))

(* ---------------------------- C27 --------------------------------------- *)
FailedPositions(tasks) == {j \in DOMAIN tasks : tasks[j].st = "failed"}

LowestFailed(tasks) ==
  CHOOSE j \in FailedPositions(tasks) : \A h \in FailedPositions(tasks) : j <= h

\* the failed collaborator calls made for message i
FaultsOfMessage(i) ==
  {f \in faults :
     CASE f[1] = "executeNext" -> f[2] = MessageId(i)
       [] f[1] \in {"save", "delete"} ->
            \/ f[2] = messages[i]
            \/ f[2].type = "message-status" /\ f[2].key = MessageId(i)
       [] OTHER -> FALSE}

\* the failed collaborator calls made for record rec
FaultsOfRecord(rec) ==
  {f \in faults : f[1] \in {"save", "delete"} /\ f[2] = rec}

\* C27 (deterministic failure choice under concurrency): when several items
\* of one page fail, the page fails with the failure of the failed item of
\* the lowest position in the page; when several messages fail, the result is
\* the failure of the failed message of the lowest position in the message
\* list; in both cases whatever the order in which the operations completed.
C27_LowestPositionWins ==
  /\ \A c \in AllCascades :
       (/\ c.phase = "failed"
        /\ Len(c.pages) >= 1
        /\ Cardinality(FailedPositions(CurrentPage(c))) >= 2) =>
         LET item == CurrentPage(c)[LowestFailed(CurrentPage(c))]
         IN /\ c.failure = item.failure
            /\ \E f \in FaultsOfRecord(item.rec) : c.failure = FailureOf(f)
  /\ (pc = "Failed" /\ Cardinality(FailedPositions(mtask)) >= 2) =>
       LET i == LowestFailed(mtask)
       IN /\ result = mtask[i].failure
          /\ \E f \in FaultsOfMessage(i) : result = FailureOf(f)

\* both messages failed, the second one first in time and with another
\* failure, and two items of one page failed too
C27_Witness ==
  /\ pc = "Failed"
  /\ FailedPositions(mtask) = {1, 2}
  /\ firstFault \in FaultsOfMessage(2)
  /\ mtask[1].failure # mtask[2].failure
  /\ result = mtask[1].failure
  /\ \E c \in AllCascades :
       /\ c.phase = "failed"
       /\ Len(c.pages) >= 1
       /\ Cardinality(FailedPositions(CurrentPage(c))) >= 2

(* ---------------------------- C28 --------------------------------------- *)
\* C28 (empty user): for a valid input whose user has no message and no
\* profile version, with collaborators that do not fail, the invocation does
\* not fail, returns SUCCESS (not USER_NOT_FOUND_FAILURE) after one
\* findMessages and one profile page fetch, and performs no archive write and
\* no delete.
C28_EmptyUser ==
  (ActivityInput_decode(input) /\ live0 = {}) =>
    /\ \A r \in AllRecords : archiveCalls[r] = 0 /\ deleteCalls[r] = 0
    /\ archive = {}
    /\ messages = <<>>
    /\ result.kind # "USER_NOT_FOUND_FAILURE"
    /\ faults = {} =>
         /\ pc \in {"Idle", "QueryingMessages", "ProcessingProfile", "Done"}
         /\ errorLogs = 0
         /\ pc = "Done" =>
              /\ result = ActivityResultSuccess
              /\ profile.phase = "ok"
              /\ profile.fetchCalls = 1
              /\ profile.pages = <<>>

C28_Witness ==
  /\ ActivityInput_decode(input)
  /\ live0 = {}
  /\ faults = {}
  /\ pc = "Done"
  /\ result = ActivityResultSuccess
  /\ archive = {}
  /\ profile.fetchCalls = 1

====
